---- MODULE Spec2Model ----
(***************************************************************************)
(* A model of the data-processing core of the CDISC rules engine           *)
(* (cdisc_rules_engine/utilities/data_processor.py): numeric               *)
(* reconciliation of two columns, the whole-study scans with their cache,  *)
(* the MedDRA dictionary validity operations and the relationship-dataset  *)
(* filters.  Each part has its own specification (SpecCast, SpecScan,      *)
(* SpecDict, SpecMerge); the variables of the other parts stay idle.       *)
(***************************************************************************)
EXTENDS Integers, Sequences, FiniteSets, TLC

VARIABLES
    \* numeric reconciliation of two columns
    castLeft, castRight, castLeft0, castRight0, castPc,
    \* the cache service shared by the operations
    cache,
    \* whole-study scans
    datasets, scanPc, scanOp, curTarget, curDummy, tasks, slots, ret,
    nCalls, cacheAtCall, scanRan, completed, doneOrder,
    \* dictionary validity operations
    df, dictPc, dictErr, dictRet, dictCalls, builds, dictPath, dictLookups, dictResolved,
    \* relationship datasets
    parent, child, mergeResult, mergePc, mergeErr, mergeKeys, mergePrev,
    \* the registry of dictionary term factories
    registry, regPc, regErr, regRet, regLog,
    \* the study-day operation
    dyFrame, dyRet, dyPc

castVars == <<castLeft, castRight, castLeft0, castRight0, castPc>>
scanVars == <<datasets, scanPc, scanOp, curTarget, curDummy, tasks, slots, ret,
              nCalls, cacheAtCall, scanRan, completed, doneOrder>>
dictVars == <<df, dictPc, dictErr, dictRet, dictCalls, builds,
              dictPath, dictLookups, dictResolved>>
mergeVars == <<parent, child, mergeResult, mergePc, mergeErr, mergeKeys, mergePrev>>
regVars == <<registry, regPc, regErr, regRet, regLog>>
dyVars == <<dyFrame, dyRet, dyPc>>
vars == <<castVars, cache, scanVars, dictVars, mergeVars, regVars, dyVars>>

(***************************************************************************)
(* Values.  A text is a sequence of one-character strings.  A cell of a    *)
(* column is an integer, a float or a text.  A float is kept exactly, as   *)
(* a mantissa m and a number e of decimal places (m / 10^e), normalised so *)
(* that equal numbers are equal cells.                                     *)
(***************************************************************************)
Digits == {"0", "1", "2", "3", "5"}

DigitVal(c) ==
    CASE c = "0" -> 0 [] c = "1" -> 1 [] c = "2" -> 2 [] c = "3" -> 3 [] c = "5" -> 5

IntCell(n) == [t |-> "int", m |-> n, e |-> 0, s |-> <<>>]
StrCell(s) == [t |-> "str", m |-> 0, e |-> 0, s |-> s]

RECURSIVE NormFloat(_, _)
NormFloat(m, e) ==
    IF e > 0 /\ m % 10 = 0 THEN NormFloat(m \div 10, e - 1)
    ELSE [t |-> "float", m |-> m, e |-> e, s |-> <<>>]

RECURSIVE IntOfDigits(_)
IntOfDigits(s) ==
    IF s = <<>> THEN 0
    ELSE IntOfDigits(SubSeq(s, 1, Len(s) - 1)) * 10 + DigitVal(s[Len(s)])

\* str.replace(".", ""): a one-character pattern is replaced literally.
StripDots(s) == SelectSeq(s, LAMBDA c : c # ".")

\* str.isdigit(): non-empty and every character a digit.
IsDigit(s) == Len(s) > 0 /\ \A i \in 1..Len(s) : s[i] \in Digits

DotCount(s) == Cardinality({i \in 1..Len(s) : s[i] = "."})

\* float(text) succeeds: digits with at most one decimal point (the texts
\* of the model hold no sign, exponent, blank or "inf"/"nan").
CanFloat(s) == IsDigit(StripDots(s)) /\ DotCount(s) <= 1

DecimalPlaces(s) ==
    IF DotCount(s) = 0 THEN 0
    ELSE Len(s) - (CHOOSE i \in 1..Len(s) : s[i] = ".")

FloatOfText(s) == NormFloat(IntOfDigits(StripDots(s)), DecimalPlaces(s))

\* float(cell): defined when CellCanFloat(cell).
CellCanFloat(c) == c.t # "str" \/ CanFloat(c.s)
CellToFloat(c) == IF c.t = "str" THEN FloatOfText(c.s) ELSE NormFloat(c.m, c.e)

(***************************************************************************)
(* The cache service: get(key) gives None for a key never added, and       *)
(* add(key, value) overwrites.  An optional value is a record.             *)
(***************************************************************************)
None == [some |-> FALSE, val |-> <<>>]
Some(v) == [some |-> TRUE, val |-> v]

CacheGet(c, key) == IF key \in DOMAIN c THEN Some(c[key]) ELSE None
CacheAdd(c, key, value) ==
    [k \in DOMAIN c \cup {key} |-> IF k = key THEN value ELSE c[k]]

EmptyCache == [k \in {} |-> None]

(***************************************************************************)
(* Columns (pandas Series): a storage type and the cells.                  *)
(***************************************************************************)
Column(dtype, vals) == [dtype |-> dtype, vals |-> vals]

is_numeric_dtype(column) == column.dtype \in {"int64", "float64"}

\* Series.astype(float): raises ValueError when a text is no float.
AstypeFloatOk(column) == \A i \in 1..Len(column.vals) : CellCanFloat(column.vals[i])
AstypeFloat(column) ==
    Column("float64", [i \in 1..Len(column.vals) |-> CellToFloat(column.vals[i])])

column_contains_numeric(column) ==
    IF ~is_numeric_dtype(column)
    THEN \A i \in 1..Len(column.vals) : IsDigit(StripDots(column.vals[i].s))
    ELSE TRUE

(***************************************************************************)
(* cast_numeric_cols_to_same_data_type: the right column is converted      *)
(* first, then the left one; a failing conversion raises and leaves what   *)
(* was assigned before it.                                                 *)
(***************************************************************************)
MaxColLen == 2

TextValues ==
    { <<"1">>, <<"1", ".", "5">>, <<"1", ".", "0">>, <<"1", ".", "5", "x">>,
      <<"1", ".", "2", ".", "3">>, <<"A", "1">>, <<>> }

IntValues == {1, 2}

SeqsUpTo(S, n) == UNION {[1..k -> S] : k \in 0..n}

Columns ==
    {Column("object", v) : v \in SeqsUpTo({StrCell(s) : s \in TextValues}, MaxColLen)}
    \cup {Column("int64", v) : v \in SeqsUpTo({IntCell(n) : n \in IntValues}, MaxColLen)}

\* Mutant: no column is converted.
cast_nothing(left, right) == [pc |-> "done", left |-> left, right |-> right]

cast_numeric_cols_to_same_data_type(left, right) ==
    LET left_is_numeric == column_contains_numeric(left)
        right_is_numeric == column_contains_numeric(right)
    IN  IF left_is_numeric /\ right_is_numeric
        THEN IF ~AstypeFloatOk(right)
             THEN [pc |-> "raised", left |-> left, right |-> right]
             ELSE IF ~AstypeFloatOk(left)
             THEN [pc |-> "raised", left |-> left, right |-> AstypeFloat(right)]
             ELSE [pc |-> "done", left |-> AstypeFloat(left), right |-> AstypeFloat(right)]
        ELSE [pc |-> "done", left |-> left, right |-> right]

(***************************************************************************)
(* The state of a part that is not running.                               *)
(***************************************************************************)
Pending == [st |-> "pending", val |-> <<>>]

ScanIdle ==
    /\ datasets = <<>>
    /\ scanPc = "idle"
    /\ scanOp = "none"
    /\ curTarget = <<>>
    /\ curDummy = FALSE
    /\ tasks = <<>>
    /\ slots = <<>>
    /\ ret = None
    /\ nCalls = 0
    /\ cacheAtCall = EmptyCache
    /\ scanRan = FALSE
    /\ completed = {}
    /\ doneOrder = <<>>

MergeIdle ==
    /\ parent = <<>>
    /\ child = <<>>
    /\ mergeResult = <<>>
    /\ mergePc = "idle"
    /\ mergeErr = "none"
    /\ mergeKeys = <<>>
    /\ mergePrev = <<>>

\* The registry as the class is loaded: the two built-in factories, under
\* the names of DictionaryTypes.MEDDRA and DictionaryTypes.WHODRUG.
RegistryLoaded ==
    [name \in {"meddra", "whodrug"} |->
        IF name = "meddra" THEN "MedDRATermsFactory" ELSE "WhoDrugTermsFactory"]

RegIdle ==
    /\ registry = RegistryLoaded
    /\ regPc = "idle"
    /\ regErr = "none"
    /\ regRet = None
    /\ regLog = <<>>

DyIdle ==
    /\ dyFrame = <<>>
    /\ dyRet = <<>>
    /\ dyPc = "idle"

DictIdle ==
    /\ df = [cols |-> <<>>, rows |-> <<>>]
    /\ dictPc = "idle"
    /\ dictErr = "none"
    /\ dictRet = <<>>
    /\ dictCalls = 0
    /\ builds = <<>>
    /\ dictPath = ""
    /\ dictLookups = 0
    /\ dictResolved = FALSE

CastIdle ==
    /\ castLeft0 = Column("object", <<>>)
    /\ castRight0 = Column("object", <<>>)
    /\ castLeft = castLeft0
    /\ castRight = castRight0
    /\ castPc = "idle"

InitCast ==
    /\ castLeft0 \in Columns
    /\ castRight0 \in Columns
    /\ castLeft = castLeft0
    /\ castRight = castRight0
    /\ castPc = "start"
    /\ cache = EmptyCache
    /\ ScanIdle
    /\ DictIdle
    /\ MergeIdle
    /\ RegIdle
    /\ DyIdle

CastNumericCols ==
    /\ castPc = "start"
    /\ LET r == cast_numeric_cols_to_same_data_type(castLeft, castRight)
       IN  /\ castPc' = r.pc
           /\ castLeft' = r.left
           /\ castRight' = r.right
    /\ UNCHANGED <<castLeft0, castRight0, cache, scanVars, dictVars, mergeVars, regVars, dyVars>>

NextCast == CastNumericCols

SpecCast == InitCast /\ [][NextCast]_vars

\* The rule the specification gives for a numeric column.
Qualifies(column) ==
    \/ is_numeric_dtype(column)
    \/ \A i \in 1..Len(column.vals) : IsDigit(StripDots(column.vals[i].s))

IsCoerced(column, column0) ==
    /\ column.dtype = "float64"
    /\ Len(column.vals) = Len(column0.vals)
    /\ \A i \in 1..Len(column.vals) :
          /\ column.vals[i].t = "float"
          /\ CellCanFloat(column0.vals[i])
          /\ column.vals[i] = CellToFloat(column0.vals[i])

\* C10: once reconcileNumericColumns is over, both columns are floating point
\* if and only if both qualified as numeric, and otherwise both are exactly
\* as they were.
C10_CoercedIffBothQualify ==
    castPc \in {"done", "raised"} =>
        IF Qualifies(castLeft0) /\ Qualifies(castRight0)
        THEN IsCoerced(castLeft, castLeft0) /\ IsCoerced(castRight, castRight0)
        ELSE castLeft = castLeft0 /\ castRight = castRight0

(***************************************************************************)
(* The study on disk.  A column name is a sequence of tokens, so that the  *)
(* domain placeholder "--" of a target can be replaced by a domain.  A     *)
(* table maps its column names to their values.  The file "ae" holds the   *)
(* rows of "ae1" followed by those of "ae2"; "missing" cannot be loaded.   *)
(***************************************************************************)
StudyPath == "study"

Table(fn) ==
    CASE fn = "ae1" -> [c \in {<<"AE", "V">>, <<"USUBJID">>} |->
                          IF c = <<"USUBJID">> THEN <<"s1", "s1", "s2">>
                          ELSE <<"a", "a", "b">>]
      [] fn = "ae2" -> [c \in {<<"AE", "V">>, <<"USUBJID">>} |->
                          IF c = <<"USUBJID">> THEN <<"s1", "s3">>
                          ELSE <<"a", "c">>]
      [] fn = "ae"  -> [c \in {<<"AE", "V">>, <<"USUBJID">>} |->
                          IF c = <<"USUBJID">> THEN <<"s1", "s1", "s2", "s1", "s3">>
                          ELSE <<"a", "a", "b", "a", "c">>]
      [] fn = "ec"  -> [c \in {<<"EC", "V">>, <<"USUBJID">>} |->
                          IF c = <<"USUBJID">> THEN <<"s2", "s2">>
                          ELSE <<"a", "d">>]
      [] fn = "dm"  -> [c \in {<<"USUBJID">>, <<"AGE">>} |->
                          IF c = <<"USUBJID">> THEN <<"s1", "s2">>
                          ELSE <<"a", "a">>]

\* data_service.get_dataset(path): raises for a file that cannot be loaded.
GetDatasetOk(fn) == fn # "missing"
get_dataset(fn) == Table(fn)

RECURSIVE ConcatAll(_)
ConcatAll(ss) == IF ss = <<>> THEN <<>> ELSE Head(ss) \o ConcatAll(Tail(ss))

\* data_service.join_split_datasets(loader, files): the rows of the files,
\* one after the other, over the columns of all of them.
join_split_datasets(files) ==
    [c \in UNION {DOMAIN get_dataset(files[i]) : i \in 1..Len(files)} |->
        ConcatAll([i \in 1..Len(files) |->
            IF c \in DOMAIN get_dataset(files[i]) THEN get_dataset(files[i])[c]
            ELSE <<>>])]

\* utilities.utils.get_corresponding_datasets / is_split_dataset
get_corresponding_datasets(dsets, domain) ==
    SelectSeq(dsets, LAMBDA d : d.domain = domain)

is_split_dataset(dsets, domain) == Len(get_corresponding_datasets(dsets, domain)) > 1

\* utilities.utils.get_operations_cache_key
get_operations_cache_key(directory, operation_name) ==
    <<"operations", directory, operation_name>>

\* str.replace("--", domain, 1): the first placeholder only.
ReplaceFirst(target, domain) ==
    IF \E i \in 1..Len(target) : target[i] = "--"
    THEN LET i == CHOOSE j \in 1..Len(target) :
                    /\ target[j] = "--"
                    /\ \A k \in 1..(j - 1) : target[k] # "--"
         IN  [target EXCEPT ![i] = domain]
    ELSE target

Range(f) == {f[i] : i \in DOMAIN f}

(***************************************************************************)
(* Counters: functions from values to counts.                              *)
(***************************************************************************)
EmptyCounter == [v \in {} |-> 0]

\* Counter(iterable): how often each element occurs in the iterable.
CounterOf(s) == [v \in Range(s) |-> Cardinality({i \in DOMAIN s : s[i] = v})]

\* Series.unique(): each value once (in order of first appearance).
Unique(s) ==
    LET first == {i \in DOMAIN s : \A j \in 1..(i - 1) : s[j] # s[i]}
        F[k \in 0..Len(s)] ==
            IF k = 0 THEN <<>>
            ELSE IF k \in first THEN Append(F[k - 1], s[k]) ELSE F[k - 1]
    IN  F[Len(s)]

\* Counter + Counter
AddCounters(a, b) ==
    [v \in DOMAIN a \cup DOMAIN b |->
        (IF v \in DOMAIN a THEN a[v] ELSE 0) + (IF v \in DOMAIN b THEN b[v] ELSE 0)]

\* sum(counters, Counter())
RECURSIVE SumCounters(_)
SumCounters(cs) ==
    IF cs = <<>> THEN EmptyCounter
    ELSE AddCounters(SumCounters(SubSeq(cs, 1, Len(cs) - 1)), cs[Len(cs)])

\* set().union(*sets)
RECURSIVE UnionAll(_)
UnionAll(ss) == IF ss = <<>> THEN {} ELSE Head(ss) \cup UnionAll(Tail(ss))

(***************************************************************************)
(* The per-dataset tasks of a scan.  An outcome is ok with a value, or a   *)
(* failure (the data service raised).                                      *)
(***************************************************************************)
Ok(v) == [ok |-> TRUE, val |-> v]
Failed == [ok |-> FALSE, val |-> <<>>]

get_dataset_variables(dataset) ==
    IF GetDatasetOk(dataset.filename)
    THEN Ok(DOMAIN get_dataset(dataset.filename))
    ELSE Failed

SplitFiles(dsets, domain) ==
    LET ds == get_corresponding_datasets(dsets, domain)
    IN  [i \in 1..Len(ds) |-> ds[i].filename]

CountUnique(data, target_variable) ==
    IF target_variable \in DOMAIN data
    THEN CounterOf(Unique(data[target_variable]))
    ELSE EmptyCounter

get_dataset_variable_value_count(target, dsets, dataset) ==
    LET domain == dataset.domain
        target_variable == ReplaceFirst(target, domain)
    IN  IF is_split_dataset(dsets, domain)
        THEN LET files == SplitFiles(dsets, domain)
             IN  IF \A i \in 1..Len(files) : GetDatasetOk(files[i])
                 THEN Ok(CountUnique(join_split_datasets(files), target_variable))
                 ELSE Failed
        ELSE IF GetDatasetOk(dataset.filename)
             THEN Ok(CountUnique(get_dataset(dataset.filename), target_variable))
             ELSE Failed

\* list({dataset["domain"]: dataset for dataset in datasets}.values()): one
\* entry per domain, at the place of the domain's first descriptor, holding
\* the domain's last descriptor.
datasets_with_unique_domains(dsets) ==
    LET doms == Unique([i \in 1..Len(dsets) |-> dsets[i].domain])
        last(d) == CHOOSE i \in 1..Len(dsets) :
                      /\ dsets[i].domain = d
                      /\ \A j \in (i + 1)..Len(dsets) : dsets[j].domain # d
    IN  [k \in 1..Len(doms) |-> dsets[last(doms[k])]]

\* Mutant: one counting task per descriptor instead of one per domain.
ValueCountTasksPerFile(dsets) == dsets

\* The coroutines handed to asyncio.gather, in order.
ValueCountTasks(dsets) == datasets_with_unique_domains(dsets)
VariablesTasks(dsets) == dsets

TaskOutcome(op, target, dsets, dataset) ==
    IF op = "value_count"
    THEN get_dataset_variable_value_count(target, dsets, dataset)
    ELSE get_dataset_variables(dataset)

\* Mutant: the counters are merged like plain mappings, a later one
\* overwriting the counts of an earlier one, and only the first set is kept.
RECURSIVE OverwriteAll(_)
OverwriteAll(cs) ==
    IF cs = <<>> THEN EmptyCounter
    ELSE LET a == OverwriteAll(SubSeq(cs, 1, Len(cs) - 1))
             b == cs[Len(cs)]
         IN  [v \in DOMAIN a \cup DOMAIN b |-> IF v \in DOMAIN b THEN b[v] ELSE a[v]]

MergeResultsOverwrite(op, results) ==
    IF op = "value_count" THEN OverwriteAll(results)
    ELSE IF results = <<>> THEN {} ELSE Head(results)

\* What the scan returns from the gathered results, in task order.
MergeResults(op, results) ==
    IF op = "value_count" THEN SumCounters(results) ELSE UnionAll(results)

\* Mutant: no data service is taken for the dummy one.
is_dummy_data_never(dummy) == FALSE

\* DataProcessor.is_dummy_data: the data service is a DummyDataService.
is_dummy_data(dummy) == dummy

\* `not value`: None and an empty mapping are both falsy.
Falsy(opt) == ~opt.some \/ DOMAIN opt.val = {}

ValueCountKey(directory, target) ==
    get_operations_cache_key(directory, <<"study_value_count_", target>>)

(***************************************************************************)
(* Whole-study scans.  A study (its descriptor list) is fixed; the caller  *)
(* makes up to MaxCalls calls, each through a data processor whose data    *)
(* service is the production one or the dummy one, all sharing the cache.  *)
(***************************************************************************)
MaxDatasets == 3
MaxCalls == 2

Descriptors ==
    { [domain |-> "AE", filename |-> "ae1"], [domain |-> "AE", filename |-> "ae2"],
      [domain |-> "AE", filename |-> "ae"],  [domain |-> "EC", filename |-> "ec"],
      [domain |-> "DM", filename |-> "dm"],  [domain |-> "XX", filename |-> "missing"] }

Targets == { <<"--", "V">>, <<"USUBJID">>, <<"--", "Q">> }

\* Descriptor lists: at least one dataset, no descriptor twice.
Studies ==
    {s \in SeqsUpTo(Descriptors, MaxDatasets) :
        Len(s) >= 1 /\ \A i, j \in 1..Len(s) : i # j => s[i] # s[j]}

InitScan ==
    /\ CastIdle
    /\ DictIdle
    /\ MergeIdle
    /\ RegIdle
    /\ DyIdle
    /\ cache = EmptyCache
    /\ datasets \in Studies
    /\ scanPc = "idle"
    /\ scanOp = "none"
    /\ curTarget = <<>>
    /\ curDummy = FALSE
    /\ tasks = <<>>
    /\ slots = <<>>
    /\ ret = None
    /\ nCalls = 0
    /\ cacheAtCall = EmptyCache
    /\ scanRan = FALSE
    /\ completed = {}
    /\ doneOrder = <<>>

CanCall == scanPc \in {"idle", "returned", "raised"} /\ nCalls < MaxCalls

\* variable_value_count up to the start of the scan (or the cached return).
CallVariableValueCount(target, dummy) ==
    /\ CanCall
    /\ LET cache_key == ValueCountKey(StudyPath, target)
           variable_value_count ==
               IF ~is_dummy_data(dummy) THEN CacheGet(cache, cache_key) ELSE None
       IN  IF Falsy(variable_value_count)
           THEN /\ scanPc' = "scanning"
                /\ tasks' = ValueCountTasks(datasets)
                /\ slots' = [i \in 1..Len(ValueCountTasks(datasets)) |-> Pending]
                /\ ret' = None
                /\ scanRan' = TRUE
           ELSE /\ scanPc' = "returned"
                /\ tasks' = <<>>
                /\ slots' = <<>>
                /\ ret' = variable_value_count
                /\ scanRan' = FALSE
    /\ scanOp' = "value_count"
    /\ curTarget' = target
    /\ curDummy' = dummy
    /\ nCalls' = nCalls + 1
    /\ cacheAtCall' = cache
    /\ doneOrder' = <<>>
    /\ UNCHANGED <<cache, datasets, completed, castVars, dictVars, mergeVars, regVars, dyVars>>

\* get_all_study_variables up to asyncio.gather.
CallAllStudyVariables ==
    /\ CanCall
    /\ scanPc' = "scanning"
    /\ scanOp' = "variables"
    /\ tasks' = VariablesTasks(datasets)
    /\ slots' = [i \in 1..Len(datasets) |-> Pending]
    /\ ret' = None
    /\ scanRan' = TRUE
    /\ curTarget' = <<>>
    /\ curDummy' = FALSE
    /\ nCalls' = nCalls + 1
    /\ cacheAtCall' = cache
    /\ doneOrder' = <<>>
    /\ UNCHANGED <<cache, datasets, completed, castVars, dictVars, mergeVars, regVars, dyVars>>

\* One task runs to its end; the tasks end in any order, which doneOrder
\* records.
TaskRun(i) ==
    /\ scanPc = "scanning"
    /\ i \in 1..Len(slots)
    /\ slots[i].st = "pending"
    /\ LET r == TaskOutcome(scanOp, curTarget, datasets, tasks[i])
       IN  slots' = [slots EXCEPT ![i] =
                        IF r.ok THEN [st |-> "done", val |-> r.val]
                        ELSE [st |-> "failed", val |-> <<>>]]
    /\ doneOrder' = Append(doneOrder, i)
    /\ UNCHANGED <<cache, datasets, scanPc, scanOp, curTarget, curDummy, tasks, ret,
                   nCalls, cacheAtCall, scanRan, completed, castVars, dictVars, mergeVars, regVars, dyVars>>

\* asyncio.gather has every result: the scan returns; variable_value_count
\* adds the result to the cache unless the data service is the dummy one.
GatherReturn ==
    /\ scanPc = "scanning"
    /\ \A i \in 1..Len(slots) : slots[i].st = "done"
    /\ LET result == MergeResults(scanOp, [i \in 1..Len(slots) |-> slots[i].val])
           cache_key == ValueCountKey(StudyPath, curTarget)
           caching == scanOp = "value_count" /\ ~is_dummy_data(curDummy)
       IN  /\ ret' = Some(result)
           /\ cache' = IF caching THEN CacheAdd(cache, cache_key, result) ELSE cache
           /\ completed' = IF caching THEN completed \cup {cache_key} ELSE completed
    /\ scanPc' = "returned"
    /\ UNCHANGED <<datasets, scanOp, curTarget, curDummy, tasks, slots,
                   nCalls, cacheAtCall, scanRan, doneOrder, castVars, dictVars, mergeVars, regVars, dyVars>>

\* Mutant: the failures are gathered like results and skipped, and the sum
\* of the other tasks' results is returned and cached.
GatherRaisePartial ==
    /\ scanPc = "scanning"
    /\ \E i \in 1..Len(slots) : slots[i].st = "failed"
    /\ \A i \in 1..Len(slots) : slots[i].st # "pending"
    /\ LET good == SelectSeq(slots, LAMBDA x : x.st = "done")
           result == MergeResults(scanOp, [i \in 1..Len(good) |-> good[i].val])
           cache_key == ValueCountKey(StudyPath, curTarget)
           caching == scanOp = "value_count" /\ ~is_dummy_data(curDummy)
       IN  /\ ret' = Some(result)
           /\ cache' = IF caching THEN CacheAdd(cache, cache_key, result) ELSE cache
           /\ completed' = IF caching THEN completed \cup {cache_key} ELSE completed
    /\ scanPc' = "returned"
    /\ UNCHANGED <<datasets, scanOp, curTarget, curDummy, tasks, slots,
                   nCalls, cacheAtCall, scanRan, doneOrder, castVars, dictVars, mergeVars, regVars, dyVars>>

\* A task failed: asyncio.gather raises its exception, nothing is returned
\* and the statements after asyncio.run do not run.
GatherRaise ==
    /\ scanPc = "scanning"
    /\ \E i \in 1..Len(slots) : slots[i].st = "failed"
    /\ scanPc' = "raised"
    /\ ret' = None
    /\ UNCHANGED <<cache, datasets, scanOp, curTarget, curDummy, tasks, slots,
                   nCalls, cacheAtCall, scanRan, completed, doneOrder,
                   castVars, dictVars, mergeVars, regVars, dyVars>>

NextScan ==
    \/ \E target \in Targets, dummy \in BOOLEAN : CallVariableValueCount(target, dummy)
    \/ CallAllStudyVariables
    \/ \E i \in 1..MaxDatasets : TaskRun(i)
    \/ GatherReturn
    \/ GatherRaise

SpecScan == InitScan /\ [][NextScan]_vars

(***************************************************************************)
(* Properties of the whole-study scans.                                    *)
(***************************************************************************)
FreshValueCount == scanOp = "value_count" /\ scanPc = "returned" /\ scanRan

\* The rows of one dataset that hold v in the target column.
Occurrences(target, dataset, v) ==
    LET data == get_dataset(dataset.filename)
        col == ReplaceFirst(target, dataset.domain)
    IN  IF GetDatasetOk(dataset.filename) /\ col \in DOMAIN data
        THEN Cardinality({i \in DOMAIN data[col] : data[col][i] = v})
        ELSE 0

RECURSIVE TotalOccurrences(_, _, _)
TotalOccurrences(target, dsets, v) ==
    IF dsets = <<>> THEN 0
    ELSE Occurrences(target, Head(dsets), v) + TotalOccurrences(target, Tail(dsets), v)

StudyValues == {"a", "b", "c", "d", "s1", "s2", "s3"}

\* C4: variable_value_count maps every value of the target variable to the
\* total number of its occurrences in the target column over all datasets
\* of the study.
C4_TotalOccurrences ==
    FreshValueCount =>
        /\ DOMAIN ret.val = {v \in StudyValues : TotalOccurrences(curTarget, datasets, v) > 0}
        /\ \A v \in DOMAIN ret.val : ret.val[v] = TotalOccurrences(curTarget, datasets, v)

\* C5: with a production data source, once a variable_value_count call for a
\* directory and target has completed, no later call for them runs a scan.
C5_NoRescanAfterCompletion ==
    (scanOp = "value_count" /\ scanPc = "scanning" /\ ~curDummy)
        => ValueCountKey(StudyPath, curTarget) \notin completed

\* C6: a variable_value_count call through the dummy data service leaves the
\* cache as it was when the call began and always runs a scan, whatever the
\* cache holds under the call's key.
C6_DummyBypassesCache ==
    (scanOp = "value_count" /\ curDummy /\ scanPc # "idle")
        => cache = cacheAtCall /\ scanRan

C6_Witness ==
    /\ scanOp = "value_count" /\ curDummy /\ scanPc = "returned"
    /\ ValueCountKey(StudyPath, curTarget) \in DOMAIN cache
    /\ DOMAIN cache[ValueCountKey(StudyPath, curTarget)] # {}
    /\ DOMAIN ret.val # {}

DomainsOf(dsets) == {dsets[i].domain : i \in 1..Len(dsets)}

\* The scan's result for a study all of whose files load.
StudyValueCounts(target, dsets) ==
    LET ts == ValueCountTasks(dsets)
    IN  MergeResults("value_count",
            [i \in 1..Len(ts) |-> get_dataset_variable_value_count(target, dsets, ts[i]).val])

\* The domain AE is stored in the two files ae1 and ae2 (and no other).
SplitAE(dsets) ==
    {d.filename : d \in {x \in Range(dsets) : x.domain = "AE"}} = {"ae1", "ae2"}

\* The same study with AE stored in the single file ae, which holds the
\* joined rows of ae1 and ae2.
JoinedAE(dsets) ==
    SelectSeq(dsets, LAMBDA d : d.domain # "AE")
        \o <<[domain |-> "AE", filename |-> "ae"]>>

\* C7: a value-count scan runs one task per distinct domain, and for a study
\* whose domain AE is split over two files it returns what it returns for
\* the study that holds AE as one file with the joined rows.
C7_OneTaskPerDomainJoined ==
    /\ (scanOp = "value_count" /\ scanRan) =>
          /\ Len(tasks) = Cardinality(DomainsOf(datasets))
          /\ {tasks[i].domain : i \in 1..Len(tasks)} = DomainsOf(datasets)
    /\ (FreshValueCount /\ SplitAE(datasets)) =>
          ret.val = StudyValueCounts(curTarget, JoinedAE(datasets))

C7_Witness ==
    /\ FreshValueCount /\ SplitAE(datasets)
    /\ Len(datasets) > Len(tasks)
    /\ curTarget = <<"--", "V">>
    /\ "c" \in DOMAIN ret.val /\ "b" \in DOMAIN ret.val

\* The values a domain holds in the target column, over all of its files.
DomainValues(target, D, domain) ==
    UNION { LET data == get_dataset(d.filename)
                col == ReplaceFirst(target, domain)
            IN  IF col \in DOMAIN data THEN Range(data[col]) ELSE {}
            : d \in {x \in D : x.domain = domain} }

\* The scans' results stated over the set of descriptors, with no order.
RefValueCounts(target, D) ==
    LET doms == {d.domain : d \in D}
        vals == UNION {DomainValues(target, D, dom) : dom \in doms}
    IN  [v \in vals |-> Cardinality({dom \in doms : v \in DomainValues(target, D, dom)})]

RefVariables(D) == UNION {DOMAIN get_dataset(d.filename) : d \in D}

\* C8: whatever the order in which the tasks end and whatever the order of
\* the descriptor list, a scan returns the result that the set of
\* descriptors determines (union of columns, sum of per-domain counters).
C8_OrderIndependent ==
    (scanPc = "returned" /\ scanRan) =>
        IF scanOp = "value_count"
        THEN ret.val = RefValueCounts(curTarget, Range(datasets))
        ELSE ret.val = RefVariables(Range(datasets))

C8_Witness ==
    /\ scanPc = "returned" /\ scanRan
    /\ scanOp = "value_count"
    /\ Len(slots) >= 2
    /\ doneOrder[1] = Len(slots)
    /\ \A i \in 1..Len(slots) : DOMAIN slots[i].val # {}
    /\ \E v \in DOMAIN ret.val : ret.val[v] = 2

\* C9: once a sub-task of a scan has failed, the call returns no value and
\* writes nothing to the cache; it ends by raising.
C9_FailureAbortsScan ==
    (\E i \in 1..Len(slots) : slots[i].st = "failed") =>
        /\ scanPc \in {"scanning", "raised"}
        /\ ~ret.some
        /\ cache = cacheAtCall

C9_Witness ==
    /\ scanPc = "raised" /\ scanOp = "value_count" /\ ~curDummy
    /\ \E i \in 1..Len(slots) : slots[i].st = "done" /\ DOMAIN slots[i].val # {}

(***************************************************************************)
(* MedDRA and WhoDrug dictionaries.  A term tree is kept as the set of its *)
(* chains: the five terms (code and display term) from SOC down to LLT.    *)
(* The derived indices are what MedDRATerm computes from the tree.         *)
(***************************************************************************)
Levels == <<"soc", "hlgt", "hlt", "pt", "llt">>

\* MedDRAVariables, by level: the code variable and the term variable.
CodeVariables == <<"SOCCD", "HLGTCD", "HLTCD", "PTCD", "LLTCD">>
TermVariables == <<"SOC", "HLGT", "HLT", "DECOD", "LLT">>

\* "/".join(parts)
RECURSIVE JoinSlash(_)
JoinSlash(parts) ==
    IF Len(parts) <= 1 THEN parts
    ELSE <<Head(parts), "/">> \o JoinSlash(Tail(parts))

\* MedDRATerm.get_code_hierarchies / get_term_hierarchies / get_code_term_pairs
get_code_hierarchies(terms) ==
    {JoinSlash([l \in 1..5 |-> chain[l].code]) : chain \in terms}
get_term_hierarchies(terms) ==
    {JoinSlash([l \in 1..5 |-> chain[l].term]) : chain \in terms}
get_code_term_pairs(terms) ==
    [level \in Range(Levels) |->
        {<<chain[l].code, chain[l].term>> :
            chain \in terms, l \in {k \in 1..5 : Levels[k] = level}}]

get_meddra_code_term_pairs_cache_key(meddra_path) ==
    <<"meddra_valid_code_term_pairs_", meddra_path>>

\* The dataset handed to an operation: its columns in order and its rows.
AddColumn(d, column, values) ==
    [cols |-> IF column \in Range(d.cols) THEN d.cols ELSE Append(d.cols, column),
     rows |-> [i \in 1..Len(d.rows) |->
                 [c \in DOMAIN d.rows[i] \cup {column} |->
                     IF c = column THEN values[i] ELSE d.rows[i][c]]]]

\* _get_columns_by_meddra_variable_name: None for a target that is no MedDRA
\* variable of the domain.
variable_pair_map(domain) ==
    [v \in {<<domain, CodeVariables[l]>> : l \in 1..5}
            \cup {<<domain, TermVariables[l]>> : l \in 1..5} |->
        LET l == CHOOSE k \in 1..5 : v[2] \in {CodeVariables[k], TermVariables[k]}
        IN  [term_type |-> Levels[l],
             columns |-> <<<<domain, CodeVariables[l]>>, <<domain, TermVariables[l]>>>>]]

\* `not value` for a set.
FalsySet(opt) == ~opt.some \/ opt.val = {}

CodeHierarchiesKey(meddra_path) == <<"meddra_valid_code_hierarchies_", meddra_path>>
TermHierarchiesKey(meddra_path) == <<"meddra_valid_term_hierarchies_", meddra_path>>

(***************************************************************************)
(* The dictionary operations.  Each is one call on the caller's dataset df *)
(* with the shared cache; builds counts, per cache key, how often the      *)
(* derived index was computed from the term tree.  Of the last call,       *)
(* dictPath is the dictionary path it was given, dictLookups the number of *)
(* cache.get and cache.add calls it made and dictResolved whether it went  *)
(* to the dataset's columns for its target variable.                       *)
(***************************************************************************)
NoPath == ""
MeddraPaths == {"meddra", "meddra_empty"}
WhodrugPath == "whodrug"
Domain == "AE"

Chain1 ==
    <<[code |-> "10", term |-> "SOC1"], [code |-> "20", term |-> "HLGT1"],
      [code |-> "30", term |-> "HLT1"], [code |-> "40", term |-> "PT1"],
      [code |-> "50", term |-> "LLT1"]>>

\* What the loader put in the cache under each dictionary path.
LoadedTerms ==
    [k \in {<<"meddra">>, <<"meddra_empty">>, <<WhodrugPath>>} |->
        IF k = <<"meddra">> THEN {Chain1}
        ELSE IF k = <<"meddra_empty">> THEN {}
        ELSE {"A01", "B02"}]

BaseCols ==
    [l \in 1..11 |->
        IF l <= 5 THEN <<Domain, CodeVariables[l]>>
        ELSE IF l <= 10 THEN <<Domain, TermVariables[l - 5]>>
        ELSE <<Domain, "CLASCD">>]

\* A row that follows the chain, but for its LLT code and its drug class.
RowOf(chain, lltcd, clascd) ==
    [c \in Range(BaseCols) |->
        IF c = <<Domain, "CLASCD">> THEN clascd
        ELSE IF c = <<Domain, "LLTCD">> THEN lltcd
        ELSE LET l == CHOOSE k \in 1..5 : c[2] \in {CodeVariables[k], TermVariables[k]}
             IN  IF c[2] = CodeVariables[l] THEN chain[l].code ELSE chain[l].term]

DictDatasets ==
    { [cols |-> BaseCols, rows |-> <<RowOf(Chain1, "50", "A01"), RowOf(Chain1, "51", "Z99")>>],
      [cols |-> BaseCols, rows |-> <<RowOf(Chain1, "51", "B02")>>] }

DictTargets == DOMAIN variable_pair_map(Domain) \cup {<<Domain, "CLASCD">>}

InitDict ==
    /\ CastIdle
    /\ ScanIdle
    /\ MergeIdle
    /\ RegIdle
    /\ DyIdle
    /\ cache = LoadedTerms
    /\ df \in DictDatasets
    /\ dictPc = "idle"
    /\ dictErr = "none"
    /\ dictRet = <<>>
    /\ dictCalls = 0
    /\ builds = <<>>
    /\ dictPath = NoPath
    /\ dictLookups = 0
    /\ dictResolved = FALSE

Built(key) == IF key \in DOMAIN builds THEN builds[key] ELSE 0
CountBuild(key) == [k \in DOMAIN builds \cup {key} |-> IF k = key THEN Built(key) + 1 ELSE builds[k]]

DictRaise(err, resolved) ==
    /\ dictPc' = "raised"
    /\ dictErr' = err
    /\ dictRet' = <<>>
    /\ dictLookups' = 0
    /\ dictResolved' = resolved
    /\ UNCHANGED <<cache, df, builds>>

\* The shared body of valid_meddra_code_references and
\* valid_meddra_term_references: variables, cache key, index and suffix.
HierarchyReferences(meddra_path, variables, cache_key, index, suffix) ==
    IF meddra_path = NoPath
    THEN DictRaise("ValueError", FALSE)
    ELSE LET code_strings == [l \in 1..5 |-> <<Domain, variables[l]>>]
             cached == CacheGet(cache, cache_key)
             valid == IF FalsySet(cached) THEN index ELSE cached.val
             column == <<"uuid", dictCalls, suffix>>
             joined == [i \in 1..Len(df.rows) |->
                          JoinSlash([l \in 1..5 |-> df.rows[i][code_strings[l]]])]
         IN  /\ cache' = IF FalsySet(cached) THEN CacheAdd(cache, cache_key, valid) ELSE cache
             /\ builds' = IF FalsySet(cached) THEN CountBuild(cache_key) ELSE builds
             /\ df' = AddColumn(df, column, joined)
             /\ dictRet' = [i \in 1..Len(df.rows) |-> joined[i] \in valid]
             /\ dictPc' = "returned"
             /\ dictErr' = "none"
             /\ dictLookups' = IF FalsySet(cached) THEN 3 ELSE 1
             /\ dictResolved' = TRUE

valid_meddra_code_references(meddra_path) ==
    /\ dictCalls < MaxCalls
    /\ dictCalls' = dictCalls + 1
    /\ dictPath' = meddra_path
    /\ HierarchyReferences(meddra_path, CodeVariables, CodeHierarchiesKey(meddra_path),
                           get_code_hierarchies(cache[<<meddra_path>>]), "_codes")
    /\ UNCHANGED <<castVars, scanVars, mergeVars, regVars, dyVars>>

valid_meddra_term_references(meddra_path) ==
    /\ dictCalls < MaxCalls
    /\ dictCalls' = dictCalls + 1
    /\ dictPath' = meddra_path
    /\ HierarchyReferences(meddra_path, TermVariables, TermHierarchiesKey(meddra_path),
                           get_term_hierarchies(cache[<<meddra_path>>]), "_terms")
    /\ UNCHANGED <<castVars, scanVars, mergeVars, regVars, dyVars>>

\* valid_meddra_code_term_pairs once the path and the target are there.
CodeTermPairs(meddra_path, target) ==
    LET term_type == variable_pair_map(Domain)[target].term_type
        columns == variable_pair_map(Domain)[target].columns
        cache_key == get_meddra_code_term_pairs_cache_key(meddra_path)
        cached == CacheGet(cache, cache_key)
        \* a mapping with its five levels is never empty
        miss == ~cached.some
        valid == IF miss THEN get_code_term_pairs(cache[<<meddra_path>>])
                 ELSE cached.val
        column == <<"uuid", dictCalls, "_pairs">>
        pairs == [i \in 1..Len(df.rows) |->
                    <<df.rows[i][columns[1]], df.rows[i][columns[2]]>>]
    IN  /\ cache' = IF miss THEN CacheAdd(cache, cache_key, valid) ELSE cache
        /\ builds' = IF miss THEN CountBuild(cache_key) ELSE builds
        /\ df' = AddColumn(df, column, pairs)
        /\ dictRet' = [i \in 1..Len(df.rows) |-> pairs[i] \in valid[term_type]]
        /\ dictPc' = "returned"
        /\ dictErr' = "none"
        /\ dictLookups' = IF miss THEN 3 ELSE 1
        /\ dictResolved' = TRUE

\* Mutant: the target variable is resolved before the path is looked at.
valid_meddra_code_term_pairs_target_first(meddra_path, target) ==
    /\ dictCalls < MaxCalls
    /\ dictCalls' = dictCalls + 1
    /\ dictPath' = meddra_path
    /\ IF target \notin DOMAIN variable_pair_map(Domain)
       THEN DictRaise("TypeError", TRUE)
       ELSE IF meddra_path = NoPath
       THEN DictRaise("ValueError", TRUE)
       ELSE CodeTermPairs(meddra_path, target)
    /\ UNCHANGED <<castVars, scanVars, mergeVars, regVars, dyVars>>

valid_meddra_code_term_pairs(meddra_path, target) ==
    /\ dictCalls < MaxCalls
    /\ dictCalls' = dictCalls + 1
    /\ dictPath' = meddra_path
    /\ IF meddra_path = NoPath
       THEN DictRaise("ValueError", FALSE)
       ELSE IF target \notin DOMAIN variable_pair_map(Domain)
       THEN DictRaise("TypeError", TRUE)
       ELSE CodeTermPairs(meddra_path, target)
    /\ UNCHANGED <<castVars, scanVars, mergeVars, regVars, dyVars>>

valid_whodrug_references(whodrug_path, target) ==
    /\ dictCalls < MaxCalls
    /\ dictCalls' = dictCalls + 1
    /\ dictPath' = whodrug_path
    /\ IF whodrug_path = NoPath
       THEN DictRaise("ValueError", FALSE)
       ELSE LET valid_codes == cache[<<whodrug_path>>]
            IN  /\ dictRet' = [i \in 1..Len(df.rows) |-> df.rows[i][target] \in valid_codes]
                /\ dictPc' = "returned"
                /\ dictErr' = "none"
                /\ dictLookups' = 1
                /\ dictResolved' = TRUE
                /\ UNCHANGED <<cache, df, builds>>
    /\ UNCHANGED <<castVars, scanVars, mergeVars, regVars, dyVars>>

NextDict ==
    \/ \E path \in MeddraPaths \cup {NoPath} : valid_meddra_code_references(path)
    \/ \E path \in MeddraPaths \cup {NoPath} : valid_meddra_term_references(path)
    \/ \E path \in MeddraPaths \cup {NoPath}, target \in DictTargets :
            valid_meddra_code_term_pairs(path, target)
    \/ \E path \in {WhodrugPath, NoPath} :
            valid_whodrug_references(path, <<Domain, "CLASCD">>)

SpecDict == InitDict /\ [][NextDict]_vars

\* C2: when a dictionary validity operation has returned, the caller's
\* dataset has the columns it had before: no synthetic column is left.
C2_ColumnsUnchanged ==
    dictPc = "returned" => df.cols = BaseCols

\* C3: for each dictionary path, each kind of derived index is computed from
\* the term tree at most once, under a cache key of its own.
C3_BuiltAtMostOnce ==
    /\ \A key \in DOMAIN builds : builds[key] <= 1
    /\ \A path \in MeddraPaths :
          Cardinality({CodeHierarchiesKey(path), TermHierarchiesKey(path),
                       get_meddra_code_term_pairs_cache_key(path)}) = 3

(***************************************************************************)
(* Relationship datasets.  A dataset (pandas DataFrame) is its column      *)
(* names and its rows; a row carries its index label and its cells.  The   *)
(* child's name column holds plain column names.                           *)
(***************************************************************************)
Row(idx, v) == [idx |-> idx, v |-> v]
Frame(cols, rows) == [cols |-> cols, rows |-> rows]

\* The storage type pandas gives a column holding these cells.
DtypeOf(cells) ==
    IF cells # <<>> /\ \A i \in 1..Len(cells) : cells[i].t = "int" THEN "int64"
    ELSE IF cells # <<>> /\ \A i \in 1..Len(cells) : cells[i].t = "float" THEN "float64"
    ELSE "object"

\* dataset[column]
ColumnOf(d, c) ==
    LET cells == [i \in 1..Len(d.rows) |-> d.rows[i].v[c]]
    IN  Column(DtypeOf(cells), cells)

\* The order of Python strings, for the characters of the model.
CharRank(c) ==
    CASE c = "." -> 0 [] c = "0" -> 1 [] c = "1" -> 2 [] c = "2" -> 3 [] c = "3" -> 4
      [] c = "5" -> 5 [] c = "A" -> 6 [] c = "x" -> 7

RECURSIVE TextLess(_, _)
TextLess(a, b) ==
    IF b = <<>> THEN FALSE
    ELSE IF a = <<>> THEN TRUE
    ELSE IF Head(a) # Head(b) THEN CharRank(Head(a)) < CharRank(Head(b))
    ELSE TextLess(Tail(a), Tail(b))

RECURSIVE Pow10(_)
Pow10(n) == IF n = 0 THEN 1 ELSE 10 * Pow10(n - 1)

CellLess(a, b) ==
    IF a.t = "str" THEN TextLess(a.s, b.s)
    ELSE a.m * Pow10(b.e) < b.m * Pow10(a.e)

\* a row comes before another in the order of sort_values(by)
RECURSIVE RowLess(_, _, _)
RowLess(r1, r2, by) ==
    IF by = <<>> THEN FALSE
    ELSE IF r1.v[Head(by)] # r2.v[Head(by)] THEN CellLess(r1.v[Head(by)], r2.v[Head(by)])
    ELSE RowLess(r1, r2, Tail(by))

IsSortedBy(rows, by) ==
    \A i, j \in 1..Len(rows) : i < j => ~RowLess(rows[j], rows[i], by)

\* The outcomes of DataFrame.sort_values(by): the rows in the order of the
\* by columns, rows that tie in any order.
SortValues(rows, by) ==
    {r \in {[i \in 1..Len(rows) |-> rows[p[i]]] : p \in Permutations(1..Len(rows))} :
        IsSortedBy(r, by)}

\* The column names a name column may hold, in the order of Python strings.
NameOrder == <<"ECNUM", "ECSEQ">>

\* other_dataset.groupby(column_with_names): the keys, sorted.
GroupKeys(other, column_with_names) ==
    SelectSeq(NameOrder, LAMBDA k : \E i \in 1..Len(other.rows) :
                                        other.rows[i].v[column_with_names] = k)

Group(other, column_with_names, name) ==
    Frame(other.cols, SelectSeq(other.rows, LAMBDA r : r.v[column_with_names] = name))

\* filter_dataset_by_group_values: the rows of the whole dataset whose value
\* in the column the group names is among the group's values, both taken as
\* floats written as text.  Each group filters the dataset that was passed
\* in, not the result of the groups before it.
GroupFilterOk(dataset, group, name, column_with_values) ==
    /\ AstypeFloatOk(ColumnOf(group, column_with_values))
    /\ AstypeFloatOk(ColumnOf(dataset, name))

filter_dataset_by_group_values(dataset, group, name, column_with_values) ==
    LET decimal_group_values == Range(AstypeFloat(ColumnOf(group, column_with_values)).vals)
    IN  SelectSeq(dataset.rows, LAMBDA r : CellToFloat(r.v[name]) \in decimal_group_values)

\* grouped.apply(...): the groups' results, one after the other.
ApplyGroups(dataset, other, column_with_names, column_with_values) ==
    LET keys == GroupKeys(other, column_with_names)
    IN  ConcatAll([k \in 1..Len(keys) |->
            filter_dataset_by_group_values(
                dataset, Group(other, column_with_names, keys[k]), keys[k],
                column_with_values)])

NestedFilterOk(dataset, other, column_with_names, column_with_values) ==
    LET keys == GroupKeys(other, column_with_names)
    IN  \A k \in 1..Len(keys) :
            GroupFilterOk(dataset, Group(other, column_with_names, keys[k]), keys[k],
                          column_with_values)

(***************************************************************************)
(* filter_dataset_by_nested_columns_of_other_dataset applied to a parent   *)
(* dataset and a child dataset with the relationship columns IDVAR and     *)
(* IDVARVAL.                                                               *)
(***************************************************************************)
MaxParentRows == 2
MaxChildRows == 2

ParentCols == <<"ECSEQ", "ECNUM">>
ChildCols == <<"IDVAR", "IDVARVAL">>

\* ECNUM is stored as numbers or holds the text A1.
ParentRowValues ==
    {[c \in Range(ParentCols) |-> IF c = "ECSEQ" THEN IntCell(a) ELSE b] :
        a \in {1, 2}, b \in {IntCell(5), IntCell(6), StrCell(<<"A", "1">>)}}

ChildRowValues ==
    {[c \in Range(ChildCols) |-> IF c = "IDVAR" THEN n ELSE StrCell(t)] :
        n \in Range(NameOrder), t \in {<<"1">>, <<"2", ".", "0">>, <<"5">>, <<"A", "1">>}}

\* A dataset as it is loaded: the index labels are 0, 1, ...
FramesOf(cols, values, n) ==
    {Frame(cols, [i \in 1..Len(vs) |-> Row(i - 1, vs[i])]) : vs \in SeqsUpTo(values, n)}

\* A column of a loaded dataset holds numbers or texts, not both.
UniformColumns(d) ==
    \A c \in Range(d.cols) : \A i, j \in 1..Len(d.rows) :
        (d.rows[i].v[c].t = "str") = (d.rows[j].v[c].t = "str")

InitMerge ==
    /\ CastIdle
    /\ ScanIdle
    /\ DictIdle
    /\ RegIdle
    /\ DyIdle
    /\ cache = EmptyCache
    /\ mergeKeys = <<>>
    /\ mergePrev = <<>>
    /\ parent \in {p \in FramesOf(ParentCols, ParentRowValues, MaxParentRows) :
                        UniformColumns(p)}
    /\ child \in {c \in FramesOf(ChildCols, ChildRowValues, MaxChildRows) : Len(c.rows) >= 1}
    /\ mergeResult = <<>>
    /\ mergePc = "start"
    /\ mergeErr = "none"

FilterByNestedColumns ==
    /\ mergePc = "start"
    /\ IF ~NestedFilterOk(parent, child, "IDVAR", "IDVARVAL")
       THEN /\ mergePc' = "raised"
            /\ mergeErr' = "ValueError"
            /\ mergeResult' = <<>>
       ELSE /\ mergePc' = "filtered"
            /\ mergeErr' = "none"
            /\ mergeResult' \in
                 SortValues(ApplyGroups(parent, child, "IDVAR", "IDVARVAL"),
                            GroupKeys(child, "IDVAR"))
    /\ UNCHANGED <<parent, child, cache, castVars, scanVars, dictVars, regVars, dyVars,
                   mergeKeys, mergePrev>>

NextMerge == FilterByNestedColumns

SpecMerge == InitMerge /\ [][NextMerge]_vars

\* The parent row satisfies the constraint of the group of a name.
Satisfies(r, name) ==
    \E i \in 1..Len(child.rows) :
        /\ child.rows[i].v["IDVAR"] = name
        /\ CellCanFloat(child.rows[i].v["IDVARVAL"])
        /\ CellToFloat(r.v[name]) = CellToFloat(child.rows[i].v["IDVARVAL"])

TimesInResult(r) == Cardinality({i \in 1..Len(mergeResult) : mergeResult[i].idx = r.idx})

\* C1: when the child names two or more parent columns, the filtered result
\* holds a parent row, once, if the row satisfies the constraint of every
\* group, and does not hold it otherwise.
C1_Conjunctive ==
    (mergePc = "filtered" /\ Len(GroupKeys(child, "IDVAR")) >= 2) =>
        \A i \in 1..Len(parent.rows) :
            TimesInResult(parent.rows[i]) =
                IF \A name \in Range(GroupKeys(child, "IDVAR")) : Satisfies(parent.rows[i], name)
                THEN 1 ELSE 0

\* The pair of a group is asymmetric: one of the parent column the group
\* names and the group's values is numeric-looking and the other is not.
Asymmetric(name) ==
    /\ parent.rows # <<>>
    /\ Qualifies(ColumnOf(parent, name))
         # Qualifies(ColumnOf(Group(child, "IDVAR", name), "IDVARVAL"))

\* C11: when the pair of some group is asymmetric, the indirection step
\* completes without an error, and a parent row of the result is there for a
\* group whose pair is not asymmetric: values of an asymmetric pair do not
\* match.
C11_AsymmetricNoError ==
    (mergePc \in {"filtered", "raised"}
        /\ \E name \in Range(GroupKeys(child, "IDVAR")) : Asymmetric(name)) =>
        /\ mergePc = "filtered"
        /\ \A i \in 1..Len(mergeResult) :
              \E name \in Range(GroupKeys(child, "IDVAR")) :
                  ~Asymmetric(name) /\ Satisfies(mergeResult[i], name)

(***************************************************************************)
(* filter_dataset_by_match_keys_of_other_dataset.  set_index moves the key *)
(* columns out of the columns into the index, Index.isin compares the      *)
(* index tuples, and reset_index puts the key columns back in front of the *)
(* other columns and labels the rows 0, 1, ...                             *)
(***************************************************************************)
\* Two cells are equal as pandas compares them: numbers by value, a text
\* only with the same text.
CellEq(a, b) ==
    IF a.t = "str" \/ b.t = "str" THEN a = b
    ELSE a.m * Pow10(b.e) = b.m * Pow10(a.e)

\* DataFrame.set_index(keys)
set_index(d, keys) ==
    [index |-> keys,
     cols |-> SelectSeq(d.cols, LAMBDA c : c \notin Range(keys)),
     rows |-> d.rows]

\* The index entry of a row: the tuple of its key values.
KeyTuple(r, keys) == [k \in 1..Len(keys) |-> r.v[keys[k]]]

TupleEq(a, b) ==
    /\ Len(a) = Len(b)
    /\ \A k \in 1..Len(a) : CellEq(a[k], b[k])

\* Mutant: only the first level of the index is compared.
IndexIsinFirstLevel(r, keys, other_w_ind) ==
    \E j \in 1..Len(other_w_ind.rows) :
        CellEq(KeyTuple(r, keys)[1], KeyTuple(other_w_ind.rows[j], other_w_ind.index)[1])

\* dataset_w_ind.index.isin(other_dataset_w_ind.index), for one row
IndexIsin(r, keys, other_w_ind) ==
    \E j \in 1..Len(other_w_ind.rows) :
        TupleEq(KeyTuple(r, keys), KeyTuple(other_w_ind.rows[j], other_w_ind.index))

\* Mutant: the index is reset without having been set, and the old labels
\* stay as one more column.
reset_index_keeping(d_w_ind) ==
    LET name == IF "index" \in Range(d_w_ind.index \o d_w_ind.cols)
                THEN "level_0" ELSE "index"
    IN  Frame(<<name>> \o d_w_ind.index \o d_w_ind.cols,
              [i \in 1..Len(d_w_ind.rows) |->
                  Row(i - 1, [c \in DOMAIN d_w_ind.rows[i].v \cup {name} |->
                                 IF c = name THEN IntCell(d_w_ind.rows[i].idx)
                                 ELSE d_w_ind.rows[i].v[c]])])

\* DataFrame.reset_index()
reset_index(d_w_ind) ==
    Frame(d_w_ind.index \o d_w_ind.cols,
          [i \in 1..Len(d_w_ind.rows) |-> Row(i - 1, d_w_ind.rows[i].v)])

filter_dataset_by_match_keys_of_other_dataset(dataset, dataset_match_keys, other_dataset, other_dataset_match_keys) ==
    LET dataset_w_ind == set_index(dataset, dataset_match_keys)
        other_dataset_w_ind == set_index(other_dataset, other_dataset_match_keys)
        condition(r) == IndexIsin(r, dataset_match_keys, other_dataset_w_ind)
    IN  reset_index([dataset_w_ind EXCEPT !.rows = SelectSeq(dataset_w_ind.rows, condition)])

(***************************************************************************)
(* The key-membership filter applied to a parent dataset and a child       *)
(* dataset, and applied once more to its own output.                       *)
(***************************************************************************)
MaxKeyParentRows == 3
MaxKeyChildRows == 2

KeyParentCols == <<"DOMAIN", "USUBJID", "ECSEQ">>
KeyChildCols == <<"USUBJID", "ECSEQ">>

Subjects == {StrCell(<<"S1">>), StrCell(<<"S2">>)}

KeyParentRowValues ==
    {[c \in Range(KeyParentCols) |->
        IF c = "DOMAIN" THEN StrCell(<<"EC">>) ELSE IF c = "USUBJID" THEN u ELSE IntCell(n)] :
        u \in Subjects, n \in {1, 2}}

KeyChildRowValues ==
    {[c \in Range(KeyChildCols) |-> IF c = "USUBJID" THEN u ELSE IntCell(n)] :
        u \in Subjects, n \in {1, 2}}

\* The match keys of the two datasets, in the order they are given.
KeyLists ==
    { [dataset |-> <<"USUBJID">>, other |-> <<"USUBJID">>],
      [dataset |-> <<"USUBJID", "ECSEQ">>, other |-> <<"USUBJID", "ECSEQ">>],
      [dataset |-> <<"ECSEQ", "USUBJID">>, other |-> <<"ECSEQ", "USUBJID">>] }

InitKeys ==
    /\ CastIdle
    /\ ScanIdle
    /\ DictIdle
    /\ RegIdle
    /\ DyIdle
    /\ cache = EmptyCache
    /\ parent \in FramesOf(KeyParentCols, KeyParentRowValues, MaxKeyParentRows)
    /\ child \in FramesOf(KeyChildCols, KeyChildRowValues, MaxKeyChildRows)
    /\ mergeKeys \in KeyLists
    /\ mergeResult = <<>>
    /\ mergePrev = <<>>
    /\ mergePc = "start"
    /\ mergeErr = "none"

FilterByMatchKeys ==
    /\ mergePc = "start"
    /\ mergeResult' = filter_dataset_by_match_keys_of_other_dataset(
                          parent, mergeKeys.dataset, child, mergeKeys.other)
    /\ mergePc' = "key_filtered"
    /\ UNCHANGED <<parent, child, mergeErr, mergeKeys, mergePrev, cache,
                   castVars, scanVars, dictVars, regVars, dyVars>>

\* The caller hands the output back to the filter, with the same keys and
\* the same other dataset.
FilterByMatchKeysAgain ==
    /\ mergePc = "key_filtered"
    /\ mergePrev' = mergeResult
    /\ mergeResult' = filter_dataset_by_match_keys_of_other_dataset(
                          mergeResult, mergeKeys.dataset, child, mergeKeys.other)
    /\ mergePc' = "key_refiltered"
    /\ UNCHANGED <<parent, child, mergeErr, mergeKeys, cache,
                   castVars, scanVars, dictVars, regVars, dyVars>>

NextKeys == FilterByMatchKeys \/ FilterByMatchKeysAgain

SpecKeys == InitKeys /\ [][NextKeys]_vars

\* The match-key tuple of a parent row is the match-key tuple of a child row.
KeyMatches(r) ==
    \E j \in 1..Len(child.rows) :
        \A k \in 1..Len(mergeKeys.dataset) :
            r.v[mergeKeys.dataset[k]] = child.rows[j].v[mergeKeys.other[k]]

ValuesOf(rows) == [i \in 1..Len(rows) |-> rows[i].v]

\* C13: the key-membership filter returns exactly the parent rows whose
\* match-key tuple is the match-key tuple of some child row: in their order,
\* with all their values, duplicates included, and no other row.
C13_ExactKeyMembership ==
    mergePc = "key_filtered" =>
        /\ ValuesOf(mergeResult.rows) = ValuesOf(SelectSeq(parent.rows, KeyMatches))
        /\ Range(mergeResult.cols) = Range(parent.cols)

\* Two equal parent rows are kept around a row that is dropped, with two keys.
C13_Witness ==
    /\ mergePc = "key_filtered"
    /\ Len(mergeKeys.dataset) = 2
    /\ Len(parent.rows) = 3
    /\ ~KeyMatches(parent.rows[2])
    /\ Len(mergeResult.rows) = 2
    /\ mergeResult.rows[1].v = mergeResult.rows[2].v

\* C14: the filter applied to its own output, with the same keys and the
\* same other dataset, returns that output: rows, row order and columns.
C14_Idempotent ==
    mergePc = "key_refiltered" => mergeResult = mergePrev

\* The first application dropped a row and moved the key columns.
C14_Witness ==
    /\ mergePc = "key_refiltered"
    /\ mergePrev.cols # parent.cols
    /\ Len(mergePrev.rows) >= 1
    /\ Len(mergePrev.rows) < Len(parent.rows)

(***************************************************************************)
(* filter_parent_dataset_by_supp_dataset_rdomain.  DataFrame.get gives the *)
(* column, or the empty default series when the dataset has no such        *)
(* column; Series.empty is true of a series without values.                *)
(***************************************************************************)
\* dataset.get(column, pd.Series()): the values of the series.
GetColumnValues(d, column) ==
    IF column \in Range(d.cols)
    THEN [i \in 1..Len(d.rows) |-> d.rows[i].v[column]]
    ELSE <<>>

\* Series.isin(values), for one value
SeriesIsin(value, values) == \E j \in 1..Len(values) : CellEq(value, values[j])

filter_parent_dataset_by_supp_dataset_rdomain(parent_dataset, supp_dataset) ==
    LET parent_domain_values == GetColumnValues(parent_dataset, "DOMAIN")
        supp_domain_values == GetColumnValues(supp_dataset, "RDOMAIN")
    IN  IF parent_domain_values = <<>> \/ supp_domain_values = <<>>
        THEN parent_dataset
        ELSE Frame(parent_dataset.cols,
                   SelectSeq(parent_dataset.rows,
                             LAMBDA r : SeriesIsin(r.v["DOMAIN"], supp_domain_values)))

(***************************************************************************)
(* The domain gate applied to a parent dataset with or without a DOMAIN    *)
(* column and a child dataset with or without an RDOMAIN column.           *)
(***************************************************************************)
Domains == {StrCell(<<"AE">>), StrCell(<<"EC">>)}

GateParentRowValues(cols) ==
    {[c \in Range(cols) |-> IF c = "DOMAIN" THEN d ELSE IntCell(n)] :
        d \in Domains, n \in {1, 2}}

GateChildRowValues(cols) ==
    {[c \in Range(cols) |-> IF c = "RDOMAIN" THEN d ELSE "ECSEQ"] : d \in Domains}

InitGate ==
    /\ CastIdle
    /\ ScanIdle
    /\ DictIdle
    /\ RegIdle
    /\ DyIdle
    /\ cache = EmptyCache
    /\ \E cols \in {<<"DOMAIN", "ECSEQ">>, <<"ECSEQ">>} :
          parent \in FramesOf(cols, GateParentRowValues(cols), MaxParentRows)
    /\ \E cols \in {<<"RDOMAIN", "IDVAR">>, <<"IDVAR">>} :
          child \in FramesOf(cols, GateChildRowValues(cols), MaxChildRows)
    /\ mergeKeys = <<>>
    /\ mergeResult = <<>>
    /\ mergePrev = <<>>
    /\ mergePc = "start"
    /\ mergeErr = "none"

FilterByRdomain ==
    /\ mergePc = "start"
    /\ mergeResult' = filter_parent_dataset_by_supp_dataset_rdomain(parent, child)
    /\ mergePc' = "gated"
    /\ UNCHANGED <<parent, child, mergeErr, mergeKeys, mergePrev, cache,
                   castVars, scanVars, dictVars, regVars, dyVars>>

NextGate == FilterByRdomain

SpecGate == InitGate /\ [][NextGate]_vars

\* The DOMAIN of a parent row is among the RDOMAIN values of the child.
DomainDeclared(r) ==
    \E j \in 1..Len(child.rows) : child.rows[j].v["RDOMAIN"] = r.v["DOMAIN"]

\* C15: with a DOMAIN column in the parent and an RDOMAIN column in the
\* child, the domain gate keeps exactly the parent rows whose DOMAIN is among
\* the child's RDOMAIN values; without one of the columns it returns the
\* parent dataset as it is.
C15_DomainGate ==
    mergePc = "gated" =>
        IF "DOMAIN" \in Range(parent.cols) /\ "RDOMAIN" \in Range(child.cols)
        THEN mergeResult = Frame(parent.cols, SelectSeq(parent.rows, DomainDeclared))
        ELSE mergeResult = parent

(***************************************************************************)
(* merge_datasets_on_relationship_columns.  The parent column to join on   *)
(* is the name in the first row of the child; the two join columns go      *)
(* through cast_numeric_cols_to_same_data_type, which assigns the floats   *)
(* to the datasets it was given; pd.merge(how="outer") pairs the rows with *)
(* equal join values and keeps the rows of both sides that have no pair.   *)
(* A merged row is the positions l and r of its two rows (0 for none) and  *)
(* its values, NaN where a side is missing.                                *)
(***************************************************************************)
NaN == [t |-> "nan", m |-> 0, e |-> 0, s |-> <<>>]

\* dataset[column] = values
SetColumn(d, column, values) ==
    Frame(d.cols, [i \in 1..Len(d.rows) |->
                      Row(d.rows[i].idx, [d.rows[i].v EXCEPT ![column] = values[i]])])

\* suffixes=("", "." + domain name): the name a right column has in the result
RightName(c, left_cols, right_dataset_domain_name) ==
    IF c \in Range(left_cols) THEN c \o "." \o right_dataset_domain_name ELSE c

MergedRow(l, r, left, right, right_dataset_domain_name) ==
    [l |-> l, r |-> r,
     v |-> [c \in Range(left.cols)
                  \cup {RightName(right.cols[j], left.cols, right_dataset_domain_name) :
                           j \in 1..Len(right.cols)} |->
               IF c \in Range(left.cols)
               THEN IF l = 0 THEN NaN ELSE left.rows[l].v[c]
               ELSE IF r = 0 THEN NaN
               ELSE right.rows[r].v[
                        right.cols[CHOOSE j \in 1..Len(right.cols) :
                            RightName(right.cols[j], left.cols, right_dataset_domain_name) = c]]]]

\* pd.merge refuses to join a column of texts with a column of numbers,
\* unless one of them has no values.
MergeKeysOk(left_column, right_column) ==
    \/ left_column.vals = <<>>
    \/ right_column.vals = <<>>
    \/ is_numeric_dtype(left_column) = is_numeric_dtype(right_column)

\* pd.merge(left, right, left_on=[left_on], right_on=[right_on], how="outer",
\*          suffixes=("", "." + domain name))
OuterMerge(left, right, left_on, right_on, right_dataset_domain_name) ==
    LET L == 1..Len(left.rows)
        R == 1..Len(right.rows)
        pairs == {p \in L \X R :
                     CellEq(left.rows[p[1]].v[left_on], right.rows[p[2]].v[right_on])}
        left_only == {<<l, 0>> : l \in {x \in L : \A r \in R : <<x, r>> \notin pairs}}
        right_only == {<<0, r>> : r \in {x \in R : \A l \in L : <<l, x>> \notin pairs}}
    IN  [cols |-> left.cols \o
                    [j \in 1..Len(right.cols) |->
                        RightName(right.cols[j], left.cols, right_dataset_domain_name)],
         rows |-> {MergedRow(p[1], p[2], left, right, right_dataset_domain_name) :
                      p \in pairs \cup left_only \cup right_only}]

\* The outcome: pc, the error, the right dataset as the call leaves it and
\* the merged dataset.
merge_datasets_on_relationship_columns(left_dataset, right_dataset, right_dataset_domain_name, column_with_names, column_with_values) ==
    IF \A i \in 1..Len(right_dataset.rows) : right_dataset.rows[i].idx # 0
    THEN [pc |-> "raised", err |-> "KeyError", right |-> right_dataset, result |-> <<>>]
    ELSE
    LET first == CHOOSE i \in 1..Len(right_dataset.rows) : right_dataset.rows[i].idx = 0
        left_ds_col_name == right_dataset.rows[first].v[column_with_names]
        cast == cast_numeric_cols_to_same_data_type(
                    ColumnOf(right_dataset, column_with_values),
                    ColumnOf(left_dataset, left_ds_col_name))
        right == SetColumn(right_dataset, column_with_values, cast.left.vals)
        left == SetColumn(left_dataset, left_ds_col_name, cast.right.vals)
    IN  IF cast.pc = "raised"
            \/ ~MergeKeysOk(ColumnOf(left, left_ds_col_name), ColumnOf(right, column_with_values))
        THEN [pc |-> "raised", err |-> "ValueError", right |-> right, result |-> <<>>]
        ELSE [pc |-> "merged", err |-> "none", right |-> right,
              result |-> OuterMerge(left, right, left_ds_col_name, column_with_values,
                                    right_dataset_domain_name)]

\* DataFrame.reset_index(drop=True)
reset_index_drop(d) ==
    Frame(d.cols, [i \in 1..Len(d.rows) |-> Row(i - 1, d.rows[i].v)])

(***************************************************************************)
(* merge_relationship_datasets: the key-membership filter, the domain      *)
(* gate, the filter by the nested columns with its sort, reset_index and   *)
(* the outer join.  mergePrev keeps the filtered parent rows (the local    *)
(* result before the join); the child is the caller's dataset and is left  *)
(* as the join's cast left it.                                             *)
(***************************************************************************)
RelParentCols == <<"DOMAIN", "USUBJID", "ECSEQ", "ECNUM">>
RelChildCols == <<"USUBJID", "RDOMAIN", "IDVAR", "IDVARVAL">>

RelParentRowValues ==
    {[c \in Range(RelParentCols) |->
        IF c = "DOMAIN" THEN StrCell(<<"EC">>)
        ELSE IF c = "USUBJID" THEN u
        ELSE IF c = "ECSEQ" THEN IntCell(n) ELSE IntCell(1)] :
        u \in Subjects, n \in {1, 2}}

\* The rows of a child dataset whose RDOMAIN is d.
RelChildRowValues(d) ==
    {[c \in Range(RelChildCols) |->
        IF c = "USUBJID" THEN StrCell(<<"S1">>)
        ELSE IF c = "RDOMAIN" THEN d
        ELSE IF c = "IDVAR" THEN n ELSE StrCell(t)] :
        n \in Range(NameOrder), t \in {<<"1">>, <<"2", ".", "0">>, <<"A", "1">>}}

\* right_dataset_domain
RelDomain ==
    [domain_name |-> "SUPPEC",
     relationship_columns |->
        [column_with_names |-> "IDVAR", column_with_values |-> "IDVARVAL"]]

InitRel ==
    /\ CastIdle
    /\ ScanIdle
    /\ DictIdle
    /\ RegIdle
    /\ DyIdle
    /\ cache = EmptyCache
    /\ parent \in FramesOf(RelParentCols, RelParentRowValues, MaxParentRows)
    /\ \E d \in Domains :
          child \in {c \in FramesOf(RelChildCols, RelChildRowValues(d), MaxChildRows) :
                        Len(c.rows) >= 1}
    /\ mergeKeys = [dataset |-> <<"USUBJID">>, other |-> <<"USUBJID">>]
    /\ mergeResult = <<>>
    /\ mergePrev = <<>>
    /\ mergePc = "start"
    /\ mergeErr = "none"

MergeRelationshipDatasets ==
    /\ mergePc = "start"
    /\ LET names == RelDomain.relationship_columns.column_with_names
           values == RelDomain.relationship_columns.column_with_values
           by_keys == filter_dataset_by_match_keys_of_other_dataset(
                          parent, mergeKeys.dataset, child, mergeKeys.other)
           gated == filter_parent_dataset_by_supp_dataset_rdomain(by_keys, child)
       IN  IF ~NestedFilterOk(gated, child, names, values)
           THEN /\ mergePc' = "raised"
                /\ mergeErr' = "ValueError"
                /\ mergeResult' = <<>>
                /\ mergePrev' = <<>>
                /\ child' = child
           ELSE \E sorted \in SortValues(ApplyGroups(gated, child, names, values),
                                         GroupKeys(child, names)) :
                  LET result == reset_index_drop(Frame(gated.cols, sorted))
                      merged == merge_datasets_on_relationship_columns(
                                    result, child, RelDomain.domain_name, names, values)
                  IN  /\ mergePc' = merged.pc
                      /\ mergeErr' = merged.err
                      /\ mergeResult' = merged.result
                      /\ mergePrev' = result
                      /\ child' = merged.right
    /\ UNCHANGED <<parent, mergeKeys, cache, castVars, scanVars, dictVars, regVars, dyVars>>

NextRel == MergeRelationshipDatasets

SpecRel == InitRel /\ [][NextRel]_vars

\* The child names one parent column and its value column holds texts that
\* are numbers; the parent row i holds, stored as a number, the number whose
\* text the child row j holds, and the two rows have the same match keys and
\* domain.
CrossTypePair(i, j) ==
    LET name == child.rows[j].v["IDVAR"]
    IN  /\ \A k \in 1..Len(child.rows) :
              /\ child.rows[k].v["IDVAR"] = name
              /\ child.rows[k].v["IDVARVAL"].t = "str"
              /\ CanFloat(child.rows[k].v["IDVARVAL"].s)
        /\ parent.rows[i].v[name].t = "int"
        /\ FloatOfText(child.rows[j].v["IDVARVAL"].s) = CellToFloat(parent.rows[i].v[name])
        /\ parent.rows[i].v["USUBJID"] = child.rows[j].v["USUBJID"]
        /\ parent.rows[i].v["DOMAIN"] = child.rows[j].v["RDOMAIN"]

\* C12: a parent row that holds a number stored numerically in the column the
\* child names, and a child row that holds the text of the same number, with
\* the same match keys and domain: the call completes, the parent row is among
\* the filtered rows and the result joins it with that child row.
C12_CrossTypeMatch ==
    [][(mergePc = "start" /\ mergePc' # "start") =>
          \A i \in 1..Len(parent.rows), j \in 1..Len(child.rows) :
              CrossTypePair(i, j) =>
                  /\ mergePc' = "merged"
                  /\ \E f \in mergeResult'.rows :
                        /\ f.l # 0
                        /\ mergePrev'.rows[f.l].v = parent.rows[i].v
                        /\ f.r = j]_vars

\* A joined row whose parent value was stored as an integer and whose child
\* value was a text, both now the same float, after a parent row was dropped.
C12_Witness ==
    /\ mergePc = "merged"
    /\ Len(mergePrev.rows) < Len(parent.rows)
    /\ \E f \in mergeResult.rows :
          /\ f.l # 0
          /\ f.r # 0
          /\ f.v["ECSEQ"].t = "float"
          /\ f.v["ECSEQ"] = NormFloat(2, 0)
          /\ f.v["IDVARVAL"] = f.v["ECSEQ"]
          /\ f.v["IDVAR"] = "ECSEQ"
          /\ parent.rows[1].v["ECSEQ"].t = "int"

\* The value of a filtered parent row in the column a child row names is
\* the value the child row holds.
Related(l, j) ==
    CellToFloat(mergePrev.rows[l].v[child.rows[j].v["IDVAR"]])
        = CellToFloat(child.rows[j].v["IDVARVAL"])

\* C16: the result is the full outer join of the filtered parent rows with
\* the whole child dataset: every child row and every filtered parent row is
\* in it, a parent row is paired with a child row exactly when its value in
\* the column the child row names is the child row's value, and a child
\* column with the name of a parent column has the suffix ".SUPPEC".
C16_OuterJoin ==
    mergePc = "merged" =>
        /\ \A j \in 1..Len(child.rows) : \E f \in mergeResult.rows : f.r = j
        /\ \A l \in 1..Len(mergePrev.rows) : \E f \in mergeResult.rows : f.l = l
        /\ \A l \in 1..Len(mergePrev.rows), j \in 1..Len(child.rows) :
              (\E f \in mergeResult.rows : f.l = l /\ f.r = j) <=> Related(l, j)
        /\ mergeResult.cols =
              mergePrev.cols \o <<"USUBJID.SUPPEC", "RDOMAIN", "IDVAR", "IDVARVAL">>

(***************************************************************************)
(* AbstractTermsFactory: the registry of term factories, a mapping of the  *)
(* class from names to factory types.  regLog keeps the calls made, in     *)
(* order.                                                                  *)
(***************************************************************************)
MaxRegCalls == 3

ServiceNames == {"", "meddra", "whodrug", "custom"}

\* The types that implement TermsFactoryInterface, and the other things a
\* caller may hand to register_service.
TermsFactories == {"MedDRATermsFactory", "WhoDrugTermsFactory", "CustomTermsFactory"}
Services == TermsFactories \cup {"NotATermsFactory"}

\* Mutant: every type passes.
issubclass_any(service, interface) == TRUE

\* issubclass(service, TermsFactoryInterface); for a value that is no class
\* issubclass itself raises TypeError.
issubclass(service, interface) == service \in interface

InitRegistry ==
    /\ CastIdle
    /\ ScanIdle
    /\ DictIdle
    /\ MergeIdle
    /\ DyIdle
    /\ cache = EmptyCache
    /\ RegIdle

register_service(name, service) ==
    /\ Len(regLog) < MaxRegCalls
    /\ regLog' = Append(regLog, [op |-> "register", name |-> name, service |-> service])
    /\ regRet' = None
    /\ IF name = ""
       THEN /\ regPc' = "raised"
            /\ regErr' = "ValueError"
            /\ UNCHANGED registry
       ELSE IF ~issubclass(service, TermsFactories)
       THEN /\ regPc' = "raised"
            /\ regErr' = "TypeError"
            /\ UNCHANGED registry
       ELSE /\ regPc' = "returned"
            /\ regErr' = "none"
            /\ registry' = [n \in DOMAIN registry \cup {name} |->
                               IF n = name THEN service ELSE registry[n]]
    /\ UNCHANGED <<cache, castVars, scanVars, dictVars, mergeVars, dyVars>>

get_service(name) ==
    /\ Len(regLog) < MaxRegCalls
    /\ regLog' = Append(regLog, [op |-> "get", name |-> name, service |-> ""])
    /\ IF name \notin DOMAIN registry
       THEN /\ regPc' = "raised"
            /\ regErr' = "ValueError"
            /\ regRet' = None
       ELSE /\ regPc' = "returned"
            /\ regErr' = "none"
            /\ regRet' = Some(registry[name])
    /\ UNCHANGED <<registry, cache, castVars, scanVars, dictVars, mergeVars, dyVars>>

NextRegistry ==
    \/ \E name \in ServiceNames, service \in Services : register_service(name, service)
    \/ \E name \in ServiceNames : get_service(name)

SpecRegistry == InitRegistry /\ [][NextRegistry]_vars

\* A registration the contract accepts.
Accepted(call) ==
    call.op = "register" /\ call.name # "" /\ call.service \in TermsFactories

\* The factory type a name stands for after the calls of a log: the type of
\* the last accepted registration under the name, or the built-in type.
RECURSIVE RegisteredAfter(_, _)
RegisteredAfter(log, name) ==
    IF log = <<>>
    THEN IF name = "meddra" THEN Some("MedDRATermsFactory")
         ELSE IF name = "whodrug" THEN Some("WhoDrugTermsFactory")
         ELSE None
    ELSE IF Accepted(log[Len(log)]) /\ log[Len(log)].name = name
    THEN Some(log[Len(log)].service)
    ELSE RegisteredAfter(SubSeq(log, 1, Len(log) - 1), name)

\* C17: a registration of a type that is no term factory ends with a type
\* error, one under an empty name with a value error, and neither changes the
\* registry; get_service(name) builds the factory type most recently
\* registered successfully under the name; the two built-in names are always
\* registered; get_service for a name never registered ends with an error and
\* builds nothing.
C17_Registry ==
    /\ {"meddra", "whodrug"} \subseteq DOMAIN registry
    /\ \A name \in ServiceNames :
          IF RegisteredAfter(regLog, name).some
          THEN name \in DOMAIN registry /\ registry[name] = RegisteredAfter(regLog, name).val
          ELSE name \notin DOMAIN registry
    /\ regLog # <<>> =>
          LET call == regLog[Len(regLog)]
              before == SubSeq(regLog, 1, Len(regLog) - 1)
          IN  /\ (call.op = "register" /\ call.name = "") =>
                    regPc = "raised" /\ regErr = "ValueError"
              /\ (call.op = "register" /\ call.name # "" /\ call.service \notin TermsFactories) =>
                    regPc = "raised" /\ regErr = "TypeError"
              /\ (call.op = "get" /\ RegisteredAfter(before, call.name).some) =>
                    regPc = "returned" /\ regRet = RegisteredAfter(before, call.name)
              /\ (call.op = "get" /\ ~RegisteredAfter(before, call.name).some) =>
                    regPc = "raised" /\ regErr = "ValueError" /\ regRet = None

\* A custom factory was registered under a built-in name, a type that is no
\* term factory was then rejected under the same name, and get_service
\* builds the custom factory.
C17_Witness ==
    /\ Len(regLog) = 3
    /\ regLog[1] = [op |-> "register", name |-> "meddra", service |-> "CustomTermsFactory"]
    /\ regLog[2] = [op |-> "register", name |-> "meddra", service |-> "NotATermsFactory"]
    /\ regLog[3].op = "get" /\ regLog[3].name = "meddra"
    /\ regRet = Some("CustomTermsFactory")

\* C18: a dictionary check called without its dictionary path ends with the
\* missing-path error (ValueError) before any lookup: the call made no
\* cache.get and no cache.add, did not go for its target variable, and the
\* cache and the caller's dataset are as they were.
C18_MissingPathFirst ==
    [][(dictCalls' # dictCalls /\ dictPath' = NoPath) =>
          /\ dictPc' = "raised"
          /\ dictErr' = "ValueError"
          /\ dictLookups' = 0
          /\ ~dictResolved'
          /\ cache' = cache
          /\ df' = df]_vars

\* A call without a path, after a call with a path that added to the cache
\* and to the dataset.
C18_Witness ==
    /\ dictCalls = 2
    /\ dictPath = NoPath
    /\ dictPc = "raised"
    /\ dictErr = "ValueError"
    /\ cache # LoadedTerms
    /\ df.cols # BaseCols

(***************************************************************************)
(* dy.  An ISO 8601 text is kept as its fields: year, month, day and hour. *)
(* datetime.fromisoformat gives the point in time: the proleptic Gregorian *)
(* ordinal of the date and the hour.  The difference of two points is a    *)
(* timedelta, normalised as Python does: days may be negative, the rest of *)
(* the day is not.                                                         *)
(***************************************************************************)
IsoText(y, mo, d, h) == [y |-> y, mo |-> mo, d |-> d, h |-> h]

IsLeap(y) == y % 4 = 0 /\ (y % 100 # 0 \/ y % 400 = 0)

DaysInMonth(y, mo) ==
    IF mo = 2 THEN (IF IsLeap(y) THEN 29 ELSE 28)
    ELSE IF mo \in {4, 6, 9, 11} THEN 30 ELSE 31

RECURSIVE DaysBeforeMonth(_, _)
DaysBeforeMonth(y, mo) ==
    IF mo = 1 THEN 0 ELSE DaysBeforeMonth(y, mo - 1) + DaysInMonth(y, mo - 1)

DaysBeforeYear(y) ==
    (y - 1) * 365 + (y - 1) \div 4 - (y - 1) \div 100 + (y - 1) \div 400

\* datetime.fromisoformat(text)
fromisoformat(text) ==
    [ordinal |-> DaysBeforeYear(text.y) + DaysBeforeMonth(text.y, text.mo) + text.d,
     hour |-> text.h]

\* a - b for two datetimes
Timedelta(a, b) ==
    LET hours == (a.ordinal - b.ordinal) * 24 + (a.hour - b.hour)
    IN  [days |-> hours \div 24, hours |-> hours % 24]

\* Mutant: one is added on both sides of the reference.
StudyDayPlusOne(x) == x.days + 1

\* lambda x: x.days if x.days < 0 else x.days + 1
StudyDay(x) == IF x.days < 0 THEN x.days ELSE x.days + 1

MaxDyRows == 2

IsoTexts ==
    { IsoText(2019, 12, 31, 0), IsoText(2020, 1, 2, 0), IsoText(2020, 2, 29, 0),
      IsoText(2020, 3, 1, 0), IsoText(2020, 3, 1, 12) }

\* The rows of the dataset: the target column and RFSTDTC.
DyRows == [target : IsoTexts, RFSTDTC : IsoTexts]

InitDy ==
    /\ CastIdle
    /\ ScanIdle
    /\ DictIdle
    /\ MergeIdle
    /\ RegIdle
    /\ cache = EmptyCache
    /\ dyFrame \in {f \in SeqsUpTo(DyRows, MaxDyRows) : Len(f) >= 1}
    /\ dyRet = <<>>
    /\ dyPc = "start"

dy ==
    /\ dyPc = "start"
    /\ LET dtc_value == [i \in 1..Len(dyFrame) |-> fromisoformat(dyFrame[i].target)]
           rfstdtc_value == [i \in 1..Len(dyFrame) |-> fromisoformat(dyFrame[i].RFSTDTC)]
       IN  dyRet' = [i \in 1..Len(dyFrame) |->
                        StudyDay(Timedelta(dtc_value[i], rfstdtc_value[i]))]
    /\ dyPc' = "returned"
    /\ UNCHANGED <<dyFrame, cache, castVars, scanVars, dictVars, mergeVars, regVars>>

NextDy == dy

SpecDy == InitDy /\ [][NextDy]_vars

\* The hours from the reference to the target.
HoursBetween(row) ==
    (fromisoformat(row.target).ordinal - fromisoformat(row.RFSTDTC).ordinal) * 24
        + (row.target.h - row.RFSTDTC.h)

\* C19: per row, with days the whole days from the reference RFSTDTC to the
\* target (the days of the timedelta: days * 24h <= difference < (days + 1) *
\* 24h), dy returns days when days < 0 and days + 1 otherwise; the result is
\* never 0; equal dates give 1, the day before the reference gives -1 and
\* two days after it gives 3.
C19_StudyDay ==
    dyPc = "returned" =>
        \A i \in 1..Len(dyFrame) :
            /\ dyRet[i] # 0
            /\ LET hours == HoursBetween(dyFrame[i])
               IN  \E days \in -100..100 :
                      /\ days * 24 <= hours
                      /\ hours < (days + 1) * 24
                      /\ dyRet[i] = IF days < 0 THEN days ELSE days + 1
            /\ dyFrame[i].target = dyFrame[i].RFSTDTC => dyRet[i] = 1
            /\ (dyFrame[i].target = IsoText(2020, 2, 29, 0)
                  /\ dyFrame[i].RFSTDTC = IsoText(2020, 3, 1, 0)) => dyRet[i] = -1
            /\ (dyFrame[i].target = IsoText(2020, 1, 2, 0)
                  /\ dyFrame[i].RFSTDTC = IsoText(2019, 12, 31, 0)) => dyRet[i] = 3

\* One row a day before its reference, across the leap day, and one row two
\* days after its reference, across the end of the year.
C19_Witness ==
    /\ dyPc = "returned"
    /\ Len(dyFrame) = 2
    /\ dyFrame[1] = [target |-> IsoText(2020, 2, 29, 0), RFSTDTC |-> IsoText(2020, 3, 1, 0)]
    /\ dyFrame[2] = [target |-> IsoText(2020, 1, 2, 0), RFSTDTC |-> IsoText(2019, 12, 31, 0)]
    /\ dyRet = <<-1, 3>>

====
